---------------------------- MODULE Spec2Model ----------------------------
(***************************************************************************)
(* A model of DataManager (src/src/core/data_manager.py): the FLDB         *)
(* container (an HDF5 file with /metadata/file_index and /files/{id}),     *)
(* the three importers, update_file_analysis, list_files with its repair   *)
(* pass, delete_file, duplicate_file, rename_file and merge_databases.     *)
(*                                                                         *)
(* Strings are sequences of tokens.  "/", "." and " " are the characters   *)
(* the code's path and strip functions look at; every other token stands   *)
(* for a run of characters that holds none of them.  A Python dict is a    *)
(* function whose DOMAIN is the set of keys present.                       *)
(***************************************************************************)
EXTENDS Integers, Sequences, FiniteSets, TLC

(***************************************************************************)
(* Bounds of the model.                                                    *)
(***************************************************************************)
\* calls made in one run without I/O failures (Spec)
MaxOps == 4
\* calls made, and I/O failures struck, in one run with I/O failures (SpecIO)
MaxOpsIO == 3
MaxFaults == 1

(***************************************************************************)
(* Python dict and str helpers.                                            *)
(***************************************************************************)
EmptyDict == <<>>

\* dict.get(k, d)
Get(d, k, default) == IF k \in DOMAIN d THEN d[k] ELSE default

\* dict.update(e): keys of e overwrite, the others stay
Update(d, e) == [k \in DOMAIN d \cup DOMAIN e |-> IF k \in DOMAIN e THEN e[k] ELSE d[k]]

\* d[k] = v
Put(d, k, v) == [x \in DOMAIN d \cup {k} |-> IF x = k THEN v ELSE d[x]]

\* del d[k]
Del(d, k) == [x \in DOMAIN d \ {k} |-> d[x]]

\* ch in s
Contains(s, ch) == \E i \in 1..Len(s) : s[i] = ch

\* s.rfind(ch) + 1: the 1-based position of the last ch, 0 when there is none
RFind(s, ch) ==
    LET hits == {i \in 1..Len(s) : s[i] = ch}
    IN  IF hits = {} THEN 0 ELSE CHOOSE i \in hits : \A j \in hits : j <= i

\* os.path.basename (posixpath): what follows the last "/"
Basename(s) == SubSeq(s, RFind(s, "/") + 1, Len(s))

\* s.rstrip("/")
RECURSIVE RStripSep(_)
RStripSep(s) ==
    IF s # <<>> /\ s[Len(s)] = "/" THEN RStripSep(SubSeq(s, 1, Len(s) - 1)) ELSE s

\* os.path.dirname (posixpath): the head up to the last "/", its trailing
\* separators stripped unless it is separators only
Dirname(s) ==
    LET head == SubSeq(s, 1, RFind(s, "/"))
    IN  IF head # <<>> /\ (\E i \in 1..Len(head) : head[i] # "/")
        THEN RStripSep(head) ELSE head

\* os.path.join(a, b) for a relative b
PathJoin(a, b) ==
    IF a = <<>> \/ a[Len(a)] = "/" THEN a \o b ELSE a \o <<"/">> \o b

\* os.path.splitext (genericpath._splitext): split at the last "." of the
\* last component, unless only dots precede it there
SplitExt(s) ==
    LET sep == RFind(s, "/")
        dot == RFind(s, ".")
    IN  IF dot > sep /\ (\E i \in (sep + 1)..(dot - 1) : s[i] # ".")
        THEN <<SubSeq(s, 1, dot - 1), SubSeq(s, dot, Len(s))>>
        ELSE <<s, <<>> >>

\* str.strip(): leading and trailing blanks removed
RECURSIVE Strip(_)
Strip(s) ==
    IF s = <<>> THEN s
    ELSE IF s[1] = " " THEN Strip(Tail(s))
    ELSE IF s[Len(s)] = " " THEN Strip(SubSeq(s, 1, Len(s) - 1))
    ELSE s

\* str.lower() on the tokens that have an upper-case form here
LowerTok(t) == IF t = "FLZ" THEN "flz" ELSE t
Lower(s) == [i \in 1..Len(s) |-> LowerTok(s[i])]

\* datetime.now().isoformat(): one token, no separator in it
Now == <<"ts">>

\* An EntryID is the number n of the n-th uuid4 minted; inside a file name it
\* is the token of its digits
IdTok(n) == ToString(n)

(***************************************************************************)
(* The files offered to the importers.                                     *)
(***************************************************************************)
FlzFull == <<"/", "d", "/", "a", ".", "flz">>
FlzBare == <<"/", "d", "/", "b", ".", "flz">>
FlrRaw == <<"c", ".", "flr">>
FlrUnknown == <<"Unknown">>
FlrMissing == <<"gone", ".", "flr">>
FlbDirUnknown == <<"/", "d", "/", "Unknown">>

SrcPaths == {FlzFull, FlzBare, FlrRaw, FlrUnknown, FlrMissing, FlbDirUnknown}

\* the check of the path left out
SrcExistsUnchecked(path) == TRUE

\* os.path.exists(path) / open(path, 'rb') succeeds
SrcExists(path) == path # FlrMissing

\* zipfile.ZipFile(path) succeeds: the file is a zip archive.  The file
\* named Unknown is an archive without photon data; add_flr_file and
\* add_flb_file read its bytes as they read any file.
SrcIsZip(path) == path \in {FlzFull, FlzBare, FlrUnknown}

\* the members of the archive: metadata.json ("none": no member, "dict": a
\* JSON object, "list": a non-empty JSON array), the two images and
\* photon_data.flr
ZipMembers(path) ==
    IF path = FlzFull
    THEN [meta |-> "dict", align |-> TRUE, laser |-> TRUE, photon |-> TRUE]
    ELSE [meta |-> "list", align |-> FALSE, laser |-> FALSE, photon |-> FALSE]

\* the object of metadata.json
SourceMetadata == [sample |-> <<"s">>]

(***************************************************************************)
(* The container file.                                                     *)
(***************************************************************************)
DefaultDb == "flx_data.fldb"
OtherDb == "other.fldb"
DbPaths == {DefaultDb, OtherDb}

\* a path written without the extension, and the same path with it
PlainDb == "plain"
PlainDbFile == "plain.fldb"
FilePaths == DbPaths \cup {PlainDb, PlainDbFile}
NoPath == "None"

\* the path string as the caller wrote it: the default is
\* os.path.join(os.getcwd(), 'flx_data.fldb')
PathText(p) ==
    IF p = DefaultDb THEN <<"/", "w", "/", "flx_data", ".", "fldb">>
    ELSE <<"other", ".", "fldb">>

\* no file at the path
NoFile ==
    [exists |-> FALSE, valid |-> FALSE, hasIndex |-> FALSE,
     index |-> EmptyDict, files |-> EmptyDict]

\* the file h5py.File(path, 'a') creates when none is there: no group in it
BlankHdf5 == [NoFile EXCEPT !.exists = TRUE]

\* create_database: the groups metadata and files, db_info and an empty index
NewContainer ==
    [exists |-> TRUE, valid |-> TRUE, hasIndex |-> TRUE,
     index |-> EmptyDict, files |-> EmptyDict]

\* a container written by an earlier run: one flb entry whose group carries
\* its source path as an attribute and whose record has lost original_path
\* to the 'Unknown' sentinel
LegacyId == 1
LegacyContainer ==
    [exists |-> TRUE, valid |-> TRUE, hasIndex |-> TRUE,
     index |-> (LegacyId :>
                  [original_path |-> <<"Unknown">>,
                   file_type |-> <<"flb">>,
                   added |-> Now,
                   has_alignment_image |-> FALSE,
                   has_laser_on_image |-> FALSE,
                   has_photon_data |-> TRUE]),
     files |-> (LegacyId :>
                  [metaKind |-> "none", meta |-> EmptyDict,
                   raw |-> [alignment_image |-> "null", laser_on_image |-> "null",
                            photon_data |-> "data"],
                   attrs |-> [source |-> <<"/", "d", "/", "x", ".", "flb">>],
                   analysis |-> EmptyDict, hasPA |-> FALSE, pa |-> EmptyDict])]

\* h5py.File(path, 'a') on the file c
OpenAppend(c) == IF c.exists THEN c ELSE BlankHdf5

\* json.dumps(None) in a raw_data slot, or the array stored there
NullSlot == "null"
DataSlot == "data"

\* the subtree written with the two image slots left null
NewEntryNoImages(metaKind, meta, align, laser, photon) ==
    [metaKind |-> metaKind, meta |-> meta,
     raw |-> [alignment_image |-> NullSlot, laser_on_image |-> NullSlot,
              photon_data |-> photon],
     attrs |-> EmptyDict, analysis |-> EmptyDict,
     hasPA |-> FALSE, pa |-> EmptyDict]

\* the subtree files/{id}: metadata/file_metadata (metaKind "none": no
\* dataset), raw_data, the attributes of the group, analysis/ and
\* photon_analysis/ (hasPA)
NewEntry(metaKind, meta, align, laser, photon) ==
    [metaKind |-> metaKind, meta |-> meta,
     raw |-> [alignment_image |-> align, laser_on_image |-> laser, photon_data |-> photon],
     attrs |-> EmptyDict, analysis |-> EmptyDict,
     hasPA |-> FALSE, pa |-> EmptyDict]

(***************************************************************************)
(* Results of the operations: the file after the call (c), what the call   *)
(* returned (ret: "None", "True", "False", or "id" with the EntryID in     *)
(* newId), and how many uuid4 values it wrote into the file (minted).      *)
(* A fault names the place where an I/O error strikes in this call:        *)
(* "index_read" at reading /metadata/file_index, "index_write" between     *)
(* deleting that dataset and creating it again, "copy" at Group.copy.      *)
(***************************************************************************)
Res(c, ret, newId, minted) == [c |-> c, ret |-> ret, newId |-> newId, minted |-> minted]

\* del f['metadata']['file_index']; f['metadata'].create_dataset('file_index', ...)
ReplaceIndex(c, idx, fault) ==
    IF fault = "index_write"
    THEN [c |-> [c EXCEPT !.hasIndex = FALSE, !.index = EmptyDict], ok |-> FALSE]
    ELSE [c |-> [c EXCEPT !.hasIndex = TRUE, !.index = idx], ok |-> TRUE]

\* json.loads(f['metadata']['file_index'][()]) returns
IndexReadable(c, fault) == c.valid /\ c.hasIndex /\ fault # "index_read"

\* _update_file_index: merge into the record of file_id, or insert it
UpdateFileIndex(c, file_id, file_info, fault) ==
    IF ~IndexReadable(c, fault) THEN [c |-> c, ok |-> FALSE]
    ELSE ReplaceIndex(c,
            IF file_id \in DOMAIN c.index
            THEN Put(c.index, file_id, Update(c.index[file_id], file_info))
            ELSE Put(c.index, file_id, file_info),
            fault)

\* an array written whether the member is there or not
SlotAlwaysData(present) == DataSlot

\* the slot of raw_data for a member that is there or not
Slot(present) == IF present THEN DataSlot ELSE NullSlot

\* _extract_flz_contents: the four fields of file_data
ExtractFlzContents(path) == ZipMembers(path)

\* add_flz_file
AddFlzFile(c0, flz_path, unique_id, fault) ==
    IF ~SrcExists(flz_path) THEN Res(c0, "None", 0, 0)
    ELSE IF ~SrcIsZip(flz_path) THEN Res(c0, "None", 0, 0)
    ELSE
      LET file_data == ExtractFlzContents(flz_path)
          c == OpenAppend(c0)
      IN  IF ~c.valid THEN Res(c, "None", 0, 0)
          ELSE
            LET entry == NewEntry(file_data.meta,
                                  IF file_data.meta = "dict" THEN SourceMetadata ELSE EmptyDict,
                                  Slot(file_data.align), Slot(file_data.laser),
                                  Slot(file_data.photon))
                c1 == [c EXCEPT !.files = Put(c.files, unique_id, entry)]
                u == UpdateFileIndex(c1, unique_id,
                        [original_path |-> flz_path,
                         file_type |-> <<"flz">>,
                         added |-> Now,
                         has_alignment_image |-> file_data.align,
                         has_laser_on_image |-> file_data.laser,
                         has_photon_data |-> file_data.photon], fault)
            IN  IF u.ok THEN Res(u.c, "id", unique_id, 1) ELSE Res(u.c, "None", 0, 1)

\* add_flr_file (ftype "flr") and add_flb_file (ftype "flb"): the same code
\* but for the type written
RawEntry(path, ftype) ==
    NewEntry("dict",
             [original_filename |-> Basename(path),
              file_type |-> <<ftype>>,
              imported |-> Now],
             NullSlot, NullSlot, DataSlot)

RawRecord(path, ftype) ==
    [original_path |-> path,
     file_type |-> <<ftype>>,
     added |-> Now,
     has_alignment_image |-> FALSE,
     has_laser_on_image |-> FALSE,
     has_photon_data |-> TRUE]

AddRawFile(c0, path, unique_id, ftype, fault) ==
    IF ~SrcExists(path) THEN Res(c0, "None", 0, 0)
    ELSE
      LET c == OpenAppend(c0)
      IN  IF ~c.valid THEN Res(c, "None", 0, 0)
          ELSE
            LET entry == RawEntry(path, ftype)
                c1 == [c EXCEPT !.files = Put(c.files, unique_id, entry)]
                u == UpdateFileIndex(c1, unique_id, RawRecord(path, ftype), fault)
            IN  IF u.ok THEN Res(u.c, "id", unique_id, 1) ELSE Res(u.c, "None", 0, 1)

AddFlrFile(c0, flr_path, unique_id, fault) == AddRawFile(c0, flr_path, unique_id, "flr", fault)

AddFlbFile(c0, flb_path, unique_id, fault) == AddRawFile(c0, flb_path, unique_id, "flb", fault)

\* json.dumps(v): the text a dataset holds, and json.loads of such a text
JsonDumps(v) == [text |-> v]
JsonLoads(t) == t.text

\* an analysis that is already there is left in place
PhotonAnalysisKeptIfPresent(e, analysis_results, metadata) ==
    IF e.hasPA THEN e.pa
    ELSE [results |-> analysis_results, metadata |-> metadata]

\* update_file_analysis, lines 458-476: the group photon_analysis is deleted
\* if there is one and created again with its two datasets
PhotonAnalysis(e, analysis_results, metadata) ==
    [results |-> analysis_results, metadata |-> metadata]

\* the subtree of an entry after update_file_analysis wrote into it
WithAnalysis(e0, analysis_results) ==
    LET metadata == [analysis_type |-> <<"photon_data_analysis">>,
                     created |-> Now,
                     total_peaks |-> Get(analysis_results, "total_peak_count", 0),
                     flowrate |-> Get(analysis_results, "flowrate", 0),
                     has_peaks |-> Len(Get(analysis_results, "start_bins", <<>>)) > 0]
    IN  [e0 EXCEPT !.hasPA = TRUE,
                   !.pa = PhotonAnalysis(e0, analysis_results, metadata)]

\* update_file_analysis
UpdateFileAnalysis(c0, file_id, analysis_results, fault) ==
    LET c == OpenAppend(c0)
    IN  IF ~c.valid \/ file_id \notin DOMAIN c.files THEN Res(c, "False", 0, 0)
        ELSE
          LET e == WithAnalysis(c.files[file_id], analysis_results)
              c1 == [c EXCEPT !.files = Put(c.files, file_id, e)]
              u == UpdateFileIndex(c1, file_id, [has_analysis |-> TRUE], fault)
          IN  Res(u.c, IF u.ok THEN "True" ELSE "False", 0, 0)

\* get_file_data: what the call returns for the file c at db_path
GetFileData(c, path, file_id) ==
    IF path = NoPath \/ ~c.exists \/ ~c.valid \/ file_id \notin DOMAIN c.files
    THEN [ret |-> "None"]
    ELSE LET e == c.files[file_id]
         IN  [ret |-> "dict",
              file_id |-> file_id,
              metadata |-> IF e.metaKind = "none" THEN [ret |-> "None"]
                           ELSE [ret |-> e.metaKind, value |-> e.meta],
              raw_data |-> [k \in DOMAIN e.raw |->
                               IF e.raw[k] = NullSlot THEN "None" ELSE e.raw[k]],
              analysis_results |-> e.analysis,
              photon_analysis |->
                  IF ~e.hasPA THEN [ret |-> "None"]
                  ELSE [ret |-> "dict",
                        results |-> JsonDumps(e.pa.results),
                        metadata |-> e.pa.metadata]]

\* delete_file leaving the index as it is
DeleteFileKeepsRecord(c0, file_id, fault) ==
    LET c == OpenAppend(c0)
    IN  IF ~c.valid \/ file_id \notin DOMAIN c.files THEN Res(c, "False", 0, 0)
        ELSE Res([c EXCEPT !.files = Del(c.files, file_id)], "True", 0, 0)

\* delete_file emptying the records it leaves in the index
DeleteFileWipesRecords(c0, file_id, fault) ==
    LET c == OpenAppend(c0)
    IN  IF ~c.valid \/ file_id \notin DOMAIN c.files THEN Res(c, "False", 0, 0)
        ELSE Res([c EXCEPT !.files = Del(c.files, file_id),
                           !.index = [x \in DOMAIN c.index \ {file_id} |-> EmptyDict]],
                 "True", 0, 0)

\* delete_file
DeleteFile(c0, file_id, fault) ==
    LET c == OpenAppend(c0)
    IN  IF ~c.valid \/ file_id \notin DOMAIN c.files THEN Res(c, "False", 0, 0)
        ELSE
          LET c1 == [c EXCEPT !.files = Del(c.files, file_id)]
          IN  IF ~IndexReadable(c1, fault) THEN Res(c1, "False", 0, 0)
              ELSE IF file_id \in DOMAIN c1.index
              THEN LET u == ReplaceIndex(c1, Del(c1.index, file_id), fault)
                   IN  Res(u.c, IF u.ok THEN "True" ELSE "False", 0, 0)
              ELSE Res(c1, "True", 0, 0)

\* "_copy" put after the extension
CopyNameAfterExt(original_name) == Basename(original_name) \o <<"_copy">>

\* name, ext = os.path.splitext(os.path.basename(original_name)); f"{name}_copy{ext}"
CopyName(original_name) ==
    LET parts == SplitExt(Basename(original_name))
    IN  parts[1] \o <<"_copy">> \o parts[2]

\* the record copied as it is
DuplicateInfoUnstamped(info, file_id) == info

\* the record duplicate_file writes for the copy of a record
DuplicateInfo(info, file_id) ==
    LET original_name == Get(info, "file_name", Get(info, "original_path", <<>>))
        copy_name == CopyName(original_name)
        named == IF original_name = <<>> THEN info
                 ELSE IF "original_path" \in DOMAIN info
                 THEN Update(info, [file_name |-> copy_name,
                                    original_path |->
                                        PathJoin(Dirname(info["original_path"]), copy_name)])
                 ELSE Put(info, "file_name", copy_name)
    IN  Update(named, [duplicated_from |-> file_id, duplicated_at |-> Now, added |-> Now])

\* duplicate_file
DuplicateFile(c0, file_id, new_file_id, fault) ==
    LET c == OpenAppend(c0)
    IN  IF ~c.valid \/ file_id \notin DOMAIN c.files THEN Res(c, "None", 0, 0)
        ELSE
          LET c1 == [c EXCEPT !.files = Put(c.files, new_file_id, c.files[file_id])]
          IN  IF ~IndexReadable(c1, fault) THEN Res(c1, "None", 0, 1)
              ELSE IF file_id \in DOMAIN c1.index
              THEN LET u == ReplaceIndex(c1,
                               Put(c1.index, new_file_id,
                                   DuplicateInfo(c1.index[file_id], file_id)), fault)
                   IN  IF u.ok THEN Res(u.c, "id", new_file_id, 1)
                       ELSE Res(u.c, "None", 0, 1)
              ELSE Res(c1, "id", new_file_id, 1)

\* rename_file
RenameFile(c0, file_id, new_name, fault) ==
    IF new_name = <<>> \/ Strip(new_name) = <<>> THEN Res(c0, "False", 0, 0)
    ELSE
      LET c == OpenAppend(c0)
      IN  IF ~c.valid \/ file_id \notin DOMAIN c.files THEN Res(c, "False", 0, 0)
          ELSE IF ~IndexReadable(c, fault) THEN Res(c, "False", 0, 0)
          ELSE
            LET u == IF file_id \in DOMAIN c.index
                     THEN ReplaceIndex(c,
                            Put(c.index, file_id,
                                Update(c.index[file_id],
                                       [file_name |-> Strip(new_name), renamed_at |-> Now])),
                            fault)
                     ELSE [c |-> c, ok |-> TRUE]
                e == u.c.files[file_id]
            IN  IF ~u.ok THEN Res(u.c, "False", 0, 0)
                ELSE IF e.metaKind = "none" THEN Res(u.c, "True", 0, 0)
                \* metadata['file_name'] = ... on a JSON array: a TypeError, which
                \* the inner except (JSONDecodeError, KeyError) lets through
                ELSE IF e.metaKind = "list" THEN Res(u.c, "False", 0, 0)
                ELSE Res([u.c EXCEPT !.files =
                            Put(u.c.files, file_id,
                                [e EXCEPT !.meta =
                                    Update(e.meta, [file_name |-> Strip(new_name),
                                                    renamed_at |-> Now])])],
                         "True", 0, 0)

\* the keys of other_db['files'], in the order h5py yields them
RECURSIVE SortedIds(_)
SortedIds(S) ==
    IF S = {} THEN <<>>
    ELSE LET m == CHOOSE x \in S : \A y \in S : x <= y
         IN  <<m>> \o SortedIds(S \ {m})

\* the id of the source kept for the copy
MergedIdKept(first_id, k, file_id) == file_id

\* new_id = str(uuid.uuid4()) for the k-th item of the loop
MergedId(first_id, k, file_id) == first_id + k - 1

\* the record of the source passed on as it is
MergedInfoUnstamped(file_info, other_db_path) == file_info

\* file_info['merged_from'] = other_db_path; file_info['merged_at'] = now
MergedInfo(file_info, other_db_path) ==
    Update(file_info, [merged_from |-> PathText(other_db_path), merged_at |-> Now])

\* the loop of merge_databases from its k-th item on; first_id is the uuid4
\* of the first item, and the fault strikes at item fault_item
RECURSIVE MergeItems(_, _, _, _, _, _, _, _)
MergeItems(cur, other, other_db_path, ids, k, first_id, fault_item, fault) ==
    IF k > Len(ids) THEN Res(cur, "True", 0, k - 1)
    ELSE
      LET f == IF k = fault_item THEN fault ELSE "none"
          new_id == MergedId(first_id, k, ids[k])
      IN  IF f = "copy" \/ ~cur.valid THEN Res(cur, "False", 0, k - 1)
          ELSE
            LET c1 == [cur EXCEPT !.files = Put(cur.files, new_id, other.files[ids[k]])]
            IN  IF ~other.hasIndex THEN Res(c1, "False", 0, k)
                ELSE IF ids[k] \in DOMAIN other.index
                THEN LET file_info == MergedInfo(other.index[ids[k]], other_db_path)
                         u == UpdateFileIndex(c1, new_id, file_info, f)
                     IN  IF u.ok
                         THEN MergeItems(u.c, other, other_db_path, ids, k + 1,
                                         first_id, fault_item, fault)
                         ELSE Res(u.c, "False", 0, k)
                ELSE MergeItems(c1, other, other_db_path, ids, k + 1,
                                first_id, fault_item, fault)

\* merge_databases.  The other file is opened 'r' first; when it is the
\* current file, HDF5 refuses the 'a' open of a file held read-only.
MergeDatabases(cur0, other, other_db_path, same_file, first_id, fault_item, fault) ==
    IF ~other.exists \/ same_file THEN Res(cur0, "False", 0, 0)
    ELSE
      LET cur == OpenAppend(cur0)
      IN  IF ~other.valid THEN Res(cur, "False", 0, 0)
          ELSE MergeItems(cur, other, other_db_path, SortedIds(DOMAIN other.files), 1,
                          first_id, fault_item, fault)

(***************************************************************************)
(* Repair and listing.                                                     *)
(***************************************************************************)
Unknown == <<"Unknown">>

\* not file_info.get('original_path') or file_info.get('original_path') == 'Unknown'
IsSuspect(file_info) ==
    LET op == Get(file_info, "original_path", <<>>)
    IN  op = <<>> \/ op = Unknown

\* ('/' in v or '\\' in v) and '.' in v
PathLike(v) == (Contains(v, "/") \/ Contains(v, "\\")) /\ Contains(v, ".")

\* the file_type an extension stands for, "" when it stands for none
TypeOfExt(path) ==
    LET ext == Lower(SplitExt(path)[2])
    IN  IF ext \in {<<".", "flz">>, <<".", "fld">>} THEN "flz"
        ELSE IF ext = <<".", "flr">> THEN "flr"
        ELSE IF ext = <<".", "flb">> THEN "flb"
        ELSE ""

\* a record adopting the path found in an attribute of its group
AdoptPath(file_info, attr_value) ==
    LET named == Update(file_info, [original_path |-> attr_value,
                                    file_name |-> Basename(attr_value)])
    IN  IF TypeOfExt(attr_value) = "" THEN named
        ELSE Put(named, "file_type", <<TypeOfExt(attr_value)>>)

\* the attributes of a group that look like a path
PathAttrs(e) == {a \in DOMAIN e.attrs : PathLike(e.attrs[a])}

\* _attempt_metadata_repair, for one record of the index
RepairRecord(file_info, file_id, c) ==
    IF ~IsSuspect(file_info) \/ file_id \notin DOMAIN c.files THEN file_info
    ELSE
      LET e == c.files[file_id]
      IN  IF PathAttrs(e) # {}
          THEN AdoptPath(file_info, e.attrs[CHOOSE a \in PathAttrs(e) : TRUE])
          ELSE
            LET original_path ==
                    IF "photon_data" \in DOMAIN e.raw
                    THEN <<"recovered_photon_data_", IdTok(file_id), ".", "flz">>
                    ELSE <<"recovered_file_", IdTok(file_id)>>
            IN  Update(file_info,
                       [original_path |-> original_path,
                        file_type |-> IF "photon_data" \in DOMAIN e.raw
                                      THEN <<"flz">> ELSE <<"unknown">>,
                        file_name |-> Basename(original_path),
                        status |-> <<"recovered">>])

\* _attempt_metadata_repair: h5py.File(db_path, 'r+').  held_read_only: the
\* caller still holds the file open 'r' (list_files does), and HDF5 refuses
\* to open read-write a file this process holds read-only.
AttemptMetadataRepair(c, held_read_only) ==
    IF held_read_only \/ ~c.exists \/ ~c.valid \/ ~c.hasIndex
    THEN [c |-> c, ret |-> FALSE]
    ELSE
      LET idx == [id \in DOMAIN c.index |-> RepairRecord(c.index[id], id, c)]
      IN  [c |-> [c EXCEPT !.index = idx], ret |-> idx # c.index]

\* the record stamped as recovered with its original_path left as it was
UtilityRepairRecordKeepsPath(file_info, file_id, c) ==
    IF ~IsSuspect(file_info) \/ file_id \notin DOMAIN c.files THEN file_info
    ELSE Update(file_info, [file_type |-> <<"unknown">>, status |-> <<"recovered">>])

\* repair_database_metadata of database_repair_utility.py, for one record
UtilityRepairRecord(file_info, file_id, c) ==
    IF ~IsSuspect(file_info) \/ file_id \notin DOMAIN c.files THEN file_info
    ELSE
      LET e == c.files[file_id]
      IN  IF PathAttrs(e) # {}
          THEN AdoptPath(file_info, e.attrs[CHOOSE a \in PathAttrs(e) : TRUE])
          ELSE
            LET original_path ==
                    IF "photon_data" \in DOMAIN e.raw
                    THEN <<"recovered_file_", IdTok(file_id), ".", "flz">>
                    ELSE <<"recovered_file_", IdTok(file_id)>>
            IN  Update(file_info,
                       [original_path |-> original_path,
                        file_type |-> IF "photon_data" \in DOMAIN e.raw
                                      THEN <<"flz">> ELSE <<"unknown">>,
                        file_name |-> Basename(original_path),
                        status |-> <<"recovered">>])

\* repair_database_metadata: the script run on the container file
RepairDatabaseMetadata(c) ==
    IF ~c.exists \/ ~c.valid \/ ~c.hasIndex THEN c
    ELSE [c EXCEPT !.index =
            [id \in DOMAIN c.index |-> UtilityRepairRecord(c.index[id], id, c)]]

\* repaired_count of a repair pass over the file c: the suspect records that
\* have a group under files/
RepairedCount(c) ==
    Cardinality({id \in DOMAIN c.index :
                    IsSuspect(c.index[id]) /\ id \in DOMAIN c.files})

\* the string-valued fields of a record, in the order the importers,
\* rename, duplicate, merge and repair insert them
StrFields ==
    <<"original_path", "file_type", "added", "file_name", "renamed_at",
      "duplicated_at", "merged_from", "merged_at", "status", "name">>

\* list_files, lines 598-604: the first field of the record that holds a
\* separator and has a basename other than itself; <<>> when there is none
ScanPathField(file_info) ==
    LET hits == {i \in 1..Len(StrFields) :
                    /\ StrFields[i] \in DOMAIN file_info
                    /\ LET field == file_info[StrFields[i]]
                       IN  /\ Contains(field, "/") \/ Contains(field, "\\")
                           /\ Basename(field) # <<>>
                           /\ Basename(field) # field}
    IN  IF hits = {} THEN <<>>
        ELSE file_info[StrFields[CHOOSE i \in hits : \A j \in hits : i <= j]]

\* list_files, lines 586-606: <<file_name, original_path>> of a row
ResolveName(file_info, file_id) ==
    LET original_path == Get(file_info, "original_path", Unknown)
        placeholder == <<"File_", IdTok(file_id)>>
        stored == Get(file_info, "file_name", Unknown)
        other == Get(file_info, "name", placeholder)
    IN  IF original_path = Unknown \/ original_path = <<>>
        THEN IF stored # Unknown THEN <<stored, original_path>>
             ELSE IF other # placeholder THEN <<other, original_path>>
             ELSE IF ScanPathField(file_info) # <<>>
             THEN <<Basename(ScanPathField(file_info)), ScanPathField(file_info)>>
             ELSE <<placeholder, original_path>>
        ELSE <<Basename(original_path), original_path>>

\* list_files, lines 635-645: the File Type of a row
ResolveType(file_info, original_path) ==
    LET file_type == Get(file_info, "file_type", Unknown)
    IN  IF file_type = Unknown /\ original_path # Unknown /\ TypeOfExt(original_path) # ""
        THEN <<TypeOfExt(original_path)>>
        ELSE file_type

\* a cell of an analysis column: the default "N/A", the bare number of Peak
\* Count, or a number formatted with the given number of decimals
NA == <<"N/A">>

\* the column left at "N/A" when the results lack the field
CellDefaultsToNA(results, key, fmt) ==
    IF key \in DOMAIN results THEN <<fmt, results[key]>> ELSE NA

Cell(results, key, fmt) == <<fmt, Get(results, key, 0)>>

\* list_files, lines 608-633: the six analysis columns of a row
AnalysisCells(c, file_id) ==
    IF file_id \in DOMAIN c.files /\ c.files[file_id].hasPA
       /\ "results" \in DOMAIN c.files[file_id].pa
    THEN LET r == c.files[file_id].pa["results"]
         IN  [peak_count |-> Cell(r, "total_peak_count", "raw"),
              signal_cv |-> Cell(r, "signal_cv", ".2f"),
              avg_background |-> Cell(r, "avg_background", ".1f"),
              avg_fluorescence |-> Cell(r, "avg_fl_signal", ".1f"),
              transit_time |-> Cell(r, "avg_particle_transit_time", ".2f"),
              eff_rec_time |-> Cell(r, "effective_recording_time", ".2f")]
    ELSE [peak_count |-> NA, signal_cv |-> NA, avg_background |-> NA,
          avg_fluorescence |-> NA, transit_time |-> NA, eff_rec_time |-> NA]

\* one row of list_files
ListRow(c, file_id) ==
    LET file_info == c.index[file_id]
        resolved == ResolveName(file_info, file_id)
    IN  [file_name |-> resolved[1],
         file_type |-> ResolveType(file_info, resolved[2]),
         cells |-> AnalysisCells(c, file_id)]

\* the rows of the DataFrame list_files builds, by File ID
ListRows(c) == [id \in DOMAIN c.index |-> ListRow(c, id)]

\* list_files.  It holds the file open 'r' while it calls the repair and
\* then itself; when the repair leaves the file as it was the recursion
\* meets the same rows at every depth and ends in RecursionError
\* (recursion_error), which the except turns into the empty DataFrame.
RECURSIVE ListFilesWhile(_, _)
ListFilesWhile(c, held_read_only) ==
    IF ~c.exists \/ ~c.valid \/ ~c.hasIndex
    THEN [c |-> c, rows |-> EmptyDict, recursion_error |-> FALSE]
    ELSE IF \A id \in DOMAIN c.index : ListRow(c, id).file_name # Unknown
    THEN [c |-> c, rows |-> ListRows(c), recursion_error |-> FALSE]
    ELSE
      LET r == AttemptMetadataRepair(c, held_read_only)
      IN  IF r.c = c THEN [c |-> c, rows |-> EmptyDict, recursion_error |-> TRUE]
          ELSE ListFilesWhile(r.c, held_read_only)

\* list_files called while nothing else has the file open: its own 'r' open
\* is the first
ListFiles(c) == ListFilesWhile(c, TRUE)

(***************************************************************************)
(* The state: the files at the container paths, the manager's db_path,     *)
(* the number of uuid4 values written so far, the number of I/O failures   *)
(* so far, the importer that produced each EntryID an importer returned    *)
(* (origin), the last call with what it returned (last), and               *)
(* the number of calls made (ops); where each thread of the application   *)
(* is in the call it executes (pc), and the handles open on each file with *)
(* the access of the first of them (handles); the table load_csv left in   *)
(* the manager (legacy_data).                                              *)
(***************************************************************************)
VARIABLES fs, db_path, minted, faults, origin, last, ops, pc, handles, legacy_data

vars == <<fs, db_path, minted, faults, origin, last, ops, pc, handles, legacy_data>>

\* the thread of the UI and the workers of the table's thread pool
Workers == {"w1", "w2"}
Threads == {"ui"} \cup Workers

\* a thread that executes no call of the manager
Idle ==
    [op |-> "idle", at |-> "idle", id |-> 0, path |-> "None", info |-> EmptyDict,
     remove |-> FALSE, nested |-> FALSE, ipath |-> "None", snapshot |-> EmptyDict,
     ret |-> "None"]

NoHandles == [p \in DbPaths |-> [mode |-> "closed", open |-> [t \in Threads |-> 0]]]

\* the inputs of the calls
FlzInputs == {FlzFull, FlzBare, FlrRaw, FlrMissing}
FlrInputs == {FlrUnknown, FlrMissing}
FlbInputs == {FlrRaw, FlbDirUnknown, FlrMissing}
NewNames == {<<>>, <<" ">>, <<" ", "n", ".", "x", " ">>}
Results ==
    {[total_peak_count |-> 0, start_bins |-> <<>>, end_bins |-> <<>>],
     [total_peak_count |-> 2, flowrate |-> 1, signal_cv |-> 0,
      start_bins |-> <<1, 5>>, end_bins |-> <<3, 8>>]}
Faults == {"none", "index_read", "index_write"}
MergeFaults == {"none", "copy", "index_read", "index_write"}

\* the ids a caller passes: those of the current container and one that is
\* in no container
KnownIds ==
    (IF db_path = NoPath THEN {}
     ELSE DOMAIN fs[db_path].files \cup DOMAIN fs[db_path].index) \cup {minted + 1}

\* one more call
Step == ops' = ops + 1 /\ UNCHANGED <<pc, handles, legacy_data>>

\* create_database, lines 161-162: '.fldb' is appended to a path that lacks
\* it
Normalize(p) == IF p = PlainDb THEN PlainDbFile ELSE p

\* the container the manager acts on
Cur == IF db_path = NoPath THEN NoFile ELSE fs[db_path]

NoCall ==
    [op |-> "init", id |-> 0, path |-> <<>>, other |-> "", ret |-> "None", newId |-> 0]

\* the call writes its file back and is recorded
Commit(call, r) ==
    /\ fs' = IF db_path = NoPath THEN fs ELSE [fs EXCEPT ![db_path] = r.c]
    /\ minted' = minted + r.minted
    /\ last' = [call EXCEPT !.ret = r.ret, !.newId = r.newId]
    /\ UNCHANGED db_path

\* an I/O failure is counted where it changes what the call does
Strikes(fault, r, r0) ==
    /\ fault # "none" => (faults < MaxFaults /\ r # r0)
    /\ faults' = IF fault = "none" THEN faults ELSE faults + 1

\* the importer of the id a call returned
Produced(r, importer) ==
    origin' = IF r.ret = "id" THEN Put(origin, r.newId, importer) ELSE origin

\* CSV files: one that cannot be read, and tables of up to MaxRows rows and
\* MaxCols columns under a header line
MaxRows == 2
MaxCols == 2
CsvFiles ==
    {[readable |-> FALSE, header |-> <<>>, lines |-> <<>>]}
    \cup {[readable |-> TRUE,
           header |-> [c \in 1..m |-> c],
           lines |-> [r \in 1..n |-> [c \in 1..m |-> 10 * r + c]]] :
              n \in 0..MaxRows, m \in 1..MaxCols}

\* a DataFrame, pd.DataFrame() and the manager before any load_csv
DataFrame(columns, data) == [set |-> TRUE, columns |-> columns, data |-> data]
EmptyFrame == DataFrame(<<>>, <<>>)
NoAttribute == [set |-> FALSE, columns |-> <<>>, data |-> <<>>]

\* df.shape
Shape(df) == <<Len(df.data), Len(df.columns)>>

\* pd.read_csv(file_path): the header line names the columns
ReadCsv(file) == DataFrame(file.header, file.lines)

\* load_csv: the table is kept in self.legacy_data; the method has no
\* return statement
LoadCsvFile(file) ==
    IF file.readable
    THEN [legacy_data |-> ReadCsv(file), ret |-> "None"]
    ELSE [legacy_data |-> EmptyFrame, ret |-> "None"]

\* get_data
GetDataFrame(ld) == IF ld.set THEN ld ELSE EmptyFrame

\* DataManager.__init__: the default database is created and opened, or
\* nothing is when os.getcwd() fails.  At the other path there is no file,
\* a file with no group in it, or a container of an earlier run.
Init ==
    /\ \/ /\ \E other \in {NoFile, BlankHdf5, LegacyContainer} :
                fs = [p \in FilePaths |->
                        IF p = DefaultDb THEN NewContainer
                        ELSE IF p = OtherDb THEN other ELSE NoFile]
          /\ db_path = DefaultDb
       \/ /\ fs = [p \in FilePaths |-> NoFile]
          /\ db_path = NoPath
    /\ minted = Cardinality(DOMAIN fs[OtherDb].files)
    /\ faults = 0
    /\ origin = EmptyDict
    /\ last = NoCall
    /\ ops = 0
    /\ pc = [t \in Threads |-> Idle]
    /\ handles = NoHandles
    /\ legacy_data = NoAttribute

\* the file is opened 'a': what it holds is kept
CreateDatabaseKeepsFile(p) ==
    /\ Step
    /\ db_path' = p
    /\ fs' = [fs EXCEPT ![Normalize(p)] = IF @.valid THEN @ ELSE NewContainer]
    /\ last' = [NoCall EXCEPT !.op = "create_database", !.other = p, !.ret = "True"]
    /\ UNCHANGED <<minted, faults, origin>>

CreateDatabase(p) ==
    /\ Step
    /\ db_path' = p
    /\ fs' = [fs EXCEPT ![Normalize(p)] = NewContainer]
    /\ last' = [NoCall EXCEPT !.op = "create_database", !.other = p, !.ret = "True"]
    /\ UNCHANGED <<minted, faults, origin>>

\* any file that is there opens
OpenSucceedsOnAnyFile(c) == c.exists

\* open_database, lines 196-212: the path exists and the file has the
\* groups metadata and files
OpenSucceeds(c) == c.exists /\ c.valid

OpenDatabase(p) ==
    /\ Step
    /\ db_path' = IF fs[p].exists THEN p ELSE db_path
    /\ last' = [NoCall EXCEPT !.op = "open_database", !.other = p,
                              !.ret = IF OpenSucceeds(fs[p]) THEN "True" ELSE "False"]
    /\ UNCHANGED <<fs, minted, faults, origin>>

AddFlz(path, fault) ==
    LET r == IF db_path = NoPath THEN Res(Cur, "None", 0, 0)
             ELSE AddFlzFile(Cur, path, minted + 1, fault)
        r0 == IF db_path = NoPath THEN Res(Cur, "None", 0, 0)
              ELSE AddFlzFile(Cur, path, minted + 1, "none")
    IN  /\ Step
        /\ Strikes(fault, r, r0)
        /\ Produced(r, "flz")
        /\ Commit([NoCall EXCEPT !.op = "add_flz_file", !.path = path], r)

AddFlr(path, fault) ==
    LET r == IF db_path = NoPath THEN Res(Cur, "None", 0, 0)
             ELSE AddFlrFile(Cur, path, minted + 1, fault)
        r0 == IF db_path = NoPath THEN Res(Cur, "None", 0, 0)
              ELSE AddFlrFile(Cur, path, minted + 1, "none")
    IN  /\ Step
        /\ Strikes(fault, r, r0)
        /\ Produced(r, "flr")
        /\ Commit([NoCall EXCEPT !.op = "add_flr_file", !.path = path], r)

AddFlb(path, fault) ==
    LET r == IF db_path = NoPath THEN Res(Cur, "None", 0, 0)
             ELSE AddFlbFile(Cur, path, minted + 1, fault)
        r0 == IF db_path = NoPath THEN Res(Cur, "None", 0, 0)
              ELSE AddFlbFile(Cur, path, minted + 1, "none")
    IN  /\ Step
        /\ Strikes(fault, r, r0)
        /\ Produced(r, "flb")
        /\ Commit([NoCall EXCEPT !.op = "add_flb_file", !.path = path], r)

UpdateAnalysis(id, results, fault) ==
    LET r == IF db_path = NoPath THEN Res(Cur, "False", 0, 0)
             ELSE UpdateFileAnalysis(Cur, id, results, fault)
        r0 == IF db_path = NoPath THEN Res(Cur, "False", 0, 0)
              ELSE UpdateFileAnalysis(Cur, id, results, "none")
    IN  /\ Step
        /\ Strikes(fault, r, r0)
        /\ Commit([NoCall EXCEPT !.op = "update_file_analysis", !.id = id], r)
        /\ UNCHANGED origin

Delete(id, fault) ==
    LET r == IF db_path = NoPath THEN Res(Cur, "False", 0, 0)
             ELSE DeleteFile(Cur, id, fault)
        r0 == IF db_path = NoPath THEN Res(Cur, "False", 0, 0)
              ELSE DeleteFile(Cur, id, "none")
    IN  /\ Step
        /\ Strikes(fault, r, r0)
        /\ Commit([NoCall EXCEPT !.op = "delete_file", !.id = id], r)
        /\ UNCHANGED origin

Duplicate(id, fault) ==
    LET r == IF db_path = NoPath THEN Res(Cur, "None", 0, 0)
             ELSE DuplicateFile(Cur, id, minted + 1, fault)
        r0 == IF db_path = NoPath THEN Res(Cur, "None", 0, 0)
              ELSE DuplicateFile(Cur, id, minted + 1, "none")
    IN  /\ Step
        /\ Strikes(fault, r, r0)
        /\ Commit([NoCall EXCEPT !.op = "duplicate_file", !.id = id], r)
        /\ UNCHANGED origin

Rename(id, new_name, fault) ==
    LET r == IF db_path = NoPath THEN Res(Cur, "False", 0, 0)
             ELSE RenameFile(Cur, id, new_name, fault)
        r0 == IF db_path = NoPath THEN Res(Cur, "False", 0, 0)
              ELSE RenameFile(Cur, id, new_name, "none")
    IN  /\ Step
        /\ Strikes(fault, r, r0)
        /\ Commit([NoCall EXCEPT !.op = "rename_file", !.id = id], r)
        /\ UNCHANGED origin

Merge(other, fault_item, fault) ==
    LET r == IF db_path = NoPath THEN Res(Cur, "False", 0, 0)
             ELSE MergeDatabases(Cur, fs[other], other, other = db_path,
                                 minted + 1, fault_item, fault)
        r0 == IF db_path = NoPath THEN Res(Cur, "False", 0, 0)
              ELSE MergeDatabases(Cur, fs[other], other, other = db_path,
                                  minted + 1, 0, "none")
    IN  /\ Step
        /\ (fault = "none") = (fault_item = 0)
        /\ Strikes(fault, r, r0)
        /\ Commit([NoCall EXCEPT !.op = "merge_databases", !.other = other], r)
        /\ UNCHANGED origin

List ==
    /\ Step
    /\ Commit([NoCall EXCEPT !.op = "list_files"], Res(ListFiles(Cur).c, "None", 0, 0))
    /\ UNCHANGED <<faults, origin>>

\* database_repair_utility.py run on the file at path p
RepairUtility(p) ==
    /\ Step
    /\ fs[p].exists
    /\ fs' = [fs EXCEPT ![p] = RepairDatabaseMetadata(fs[p])]
    /\ last' = [NoCall EXCEPT !.op = "repair_utility", !.other = p]
    /\ UNCHANGED <<db_path, minted, faults, origin>>

\* the calls, each running to completion
Next ==
    \/ \E p \in DbPaths : ops < MaxOps /\ CreateDatabase(p)
    \/ \E p \in DbPaths : ops < MaxOps /\ OpenDatabase(p)
    \/ \E path \in FlzInputs : ops < MaxOps /\ AddFlz(path, "none")
    \/ \E path \in FlrInputs : ops < MaxOps /\ AddFlr(path, "none")
    \/ \E path \in FlbInputs : ops < MaxOps /\ AddFlb(path, "none")
    \/ \E id \in KnownIds, results \in Results :
            ops < MaxOps /\ UpdateAnalysis(id, results, "none")
    \/ \E id \in KnownIds : ops < MaxOps /\ Delete(id, "none")
    \/ \E id \in KnownIds : ops < MaxOps /\ Duplicate(id, "none")
    \/ \E id \in KnownIds, new_name \in NewNames :
            ops < MaxOps /\ Rename(id, new_name, "none")
    \/ \E other \in DbPaths : ops < MaxOps /\ Merge(other, 0, "none")
    \/ ops < MaxOps /\ List
    \/ \E p \in DbPaths : ops < MaxOps /\ RepairUtility(p)

Spec == Init /\ [][Next]_vars

\* the calls, an I/O failure striking in some of them
NextIO ==
    \/ \E p \in DbPaths : ops < MaxOpsIO /\ CreateDatabase(p)
    \/ \E p \in DbPaths : ops < MaxOpsIO /\ OpenDatabase(p)
    \/ \E path \in FlzInputs, fault \in Faults : ops < MaxOpsIO /\ AddFlz(path, fault)
    \/ \E path \in FlrInputs, fault \in Faults : ops < MaxOpsIO /\ AddFlr(path, fault)
    \/ \E path \in FlbInputs, fault \in Faults : ops < MaxOpsIO /\ AddFlb(path, fault)
    \/ \E id \in KnownIds, results \in Results, fault \in Faults :
            ops < MaxOpsIO /\ UpdateAnalysis(id, results, fault)
    \/ \E id \in KnownIds, fault \in Faults : ops < MaxOpsIO /\ Delete(id, fault)
    \/ \E id \in KnownIds, fault \in Faults : ops < MaxOpsIO /\ Duplicate(id, fault)
    \/ \E id \in KnownIds, new_name \in NewNames, fault \in Faults :
            ops < MaxOpsIO /\ Rename(id, new_name, fault)
    \/ \E other \in DbPaths, k \in 0..minted, fault \in MergeFaults :
            ops < MaxOpsIO /\ Merge(other, k, fault)
    \/ ops < MaxOpsIO /\ List
    \/ \E p \in DbPaths : ops < MaxOpsIO /\ RepairUtility(p)

SpecIO == Init /\ [][NextIO]_vars

LoadCsv(file) ==
    /\ ops' = ops + 1
    /\ legacy_data' = LoadCsvFile(file).legacy_data
    /\ last' = [NoCall EXCEPT !.op = "load_csv", !.ret = LoadCsvFile(file).ret]
    /\ UNCHANGED <<fs, db_path, minted, faults, origin, pc, handles>>

GetData ==
    /\ ops' = ops + 1
    /\ last' = [NoCall EXCEPT !.op = "get_data",
                              !.ret = IF GetDataFrame(legacy_data) = EmptyFrame
                                      THEN "empty DataFrame" ELSE "DataFrame"]
    /\ UNCHANGED <<fs, db_path, minted, faults, origin, pc, handles, legacy_data>>

\* the legacy CSV calls, among calls that change the container
NextCsv ==
    \/ \E file \in CsvFiles : ops < MaxOps /\ LoadCsv(file)
    \/ ops < MaxOps /\ GetData
    \/ \E path \in FlrInputs : ops < MaxOps /\ AddFlr(path, "none")

SpecCsv == Init /\ [][NextCsv]_vars

\* the calls that create, open and use a container, a path being written
\* with or without the extension
NextPaths ==
    \/ \E p \in DbPaths \cup {PlainDb} : ops < MaxOps /\ CreateDatabase(p)
    \/ \E p \in FilePaths : ops < MaxOps /\ OpenDatabase(p)
    \/ \E path \in {FlzFull} : ops < MaxOps /\ AddFlz(path, "none")
    \/ \E path \in FlrInputs : ops < MaxOps /\ AddFlr(path, "none")
    \/ \E id \in KnownIds : ops < MaxOps /\ Delete(id, "none")
    \/ ops < MaxOps /\ List

SpecPaths == Init /\ [][NextPaths]_vars

(***************************************************************************)
(* The calls as the threads of the application execute them.  The UI       *)
(* thread ingests, lists and opens; the pool workers run delete_file and   *)
(* the completion callback of an analysis, which calls                     *)
(* update_file_analysis.  A call proceeds from one access of the file to   *)
(* the next, and the other threads run in between.                         *)
(***************************************************************************)
MaxCalls == 3

\* h5py.File(p, 'a') fails on a file the process holds open read-only
CanOpenForWrite(p) == handles[p].mode # "r"

\* h5py.File(p, mode) returns to thread t
OpenHandle(h, t, p, mode) ==
    [h EXCEPT ![p] = [mode |-> IF h[p].mode = "closed" THEN mode ELSE h[p].mode,
                      open |-> [h[p].open EXCEPT ![t] = @ + 1]]]

\* the handles stay open
HandlesLeftOpen(h, t, p, n) == h

\* thread t leaves n with statements on file p
CloseHandles(h, t, p, n) ==
    LET o == [h[p].open EXCEPT ![t] = @ - n]
    IN  [h EXCEPT ![p] = [mode |-> IF \A u \in Threads : o[u] = 0
                                   THEN "closed" ELSE h[p].mode,
                          open |-> o]]

\* an exception leaves every with statement of thread t
ReleaseAll(h, t) ==
    [p \in DbPaths |-> CloseHandles(h, t, p, h[p].open[t])[p]]

\* thread t returns from the call
Returned(t, call) ==
    /\ last' = call
    /\ pc' = [pc EXCEPT ![t] = Idle]

\* what a call returns when it fails
Failure(op) == IF op = "add_flr_file" THEN "None" ELSE "False"

\* add_flr_file up to the call of _update_file_index
TAddFlrBegin(t, flr_path) ==
    /\ pc[t] = Idle
    /\ ops' = ops + 1
    /\ UNCHANGED <<db_path, faults, legacy_data, origin>>
    /\ LET call == [NoCall EXCEPT !.op = "add_flr_file", !.path = flr_path]
       IN  IF db_path = NoPath \/ ~SrcExists(flr_path) \/ ~CanOpenForWrite(db_path)
           THEN /\ Returned(t, call)
                /\ UNCHANGED <<fs, minted, handles>>
           ELSE IF ~OpenAppend(fs[db_path]).valid
           THEN /\ fs' = [fs EXCEPT ![db_path] = OpenAppend(fs[db_path])]
                /\ Returned(t, call)
                /\ UNCHANGED <<minted, handles>>
           ELSE /\ fs' = [fs EXCEPT ![db_path].files =
                                Put(@, minted + 1, RawEntry(flr_path, "flr"))]
                /\ minted' = minted + 1
                /\ handles' = OpenHandle(handles, t, db_path, "rw")
                /\ pc' = [pc EXCEPT ![t] =
                            [Idle EXCEPT !.op = "add_flr_file", !.at = "index_read",
                                         !.id = minted + 1, !.path = db_path,
                                         !.info = RawRecord(flr_path, "flr"),
                                         !.nested = TRUE, !.ret = "id"]]
                /\ UNCHANGED last

\* update_file_analysis up to the call of _update_file_index
TUpdateBegin(t, file_id, analysis_results) ==
    /\ pc[t] = Idle
    /\ ops' = ops + 1
    /\ UNCHANGED <<db_path, faults, legacy_data, origin, minted>>
    /\ LET call == [NoCall EXCEPT !.op = "update_file_analysis", !.id = file_id,
                                  !.ret = "False"]
       IN  IF db_path = NoPath \/ ~CanOpenForWrite(db_path)
           THEN /\ Returned(t, call)
                /\ UNCHANGED <<fs, handles>>
           ELSE IF ~OpenAppend(fs[db_path]).valid
                   \/ file_id \notin DOMAIN fs[db_path].files
           THEN /\ fs' = [fs EXCEPT ![db_path] = OpenAppend(fs[db_path])]
                /\ Returned(t, call)
                /\ UNCHANGED handles
           ELSE /\ fs' = [fs EXCEPT ![db_path].files[file_id] =
                                WithAnalysis(@, analysis_results)]
                /\ handles' = OpenHandle(handles, t, db_path, "rw")
                /\ pc' = [pc EXCEPT ![t] =
                            [Idle EXCEPT !.op = "update_file_analysis",
                                         !.at = "index_read",
                                         !.id = file_id, !.path = db_path,
                                         !.info = [has_analysis |-> TRUE],
                                         !.nested = TRUE, !.ret = "True"]]
                /\ UNCHANGED last

\* delete_file up to the read of the index
TDeleteBegin(t, file_id) ==
    /\ pc[t] = Idle
    /\ ops' = ops + 1
    /\ UNCHANGED <<db_path, faults, legacy_data, origin, minted>>
    /\ LET call == [NoCall EXCEPT !.op = "delete_file", !.id = file_id, !.ret = "False"]
       IN  IF db_path = NoPath \/ ~CanOpenForWrite(db_path)
           THEN /\ Returned(t, call)
                /\ UNCHANGED <<fs, handles>>
           ELSE IF ~OpenAppend(fs[db_path]).valid
                   \/ file_id \notin DOMAIN fs[db_path].files
           THEN /\ fs' = [fs EXCEPT ![db_path] = OpenAppend(fs[db_path])]
                /\ Returned(t, call)
                /\ UNCHANGED handles
           ELSE /\ fs' = [fs EXCEPT ![db_path].files = Del(@, file_id)]
                /\ handles' = OpenHandle(handles, t, db_path, "rw")
                /\ pc' = [pc EXCEPT ![t] =
                            [Idle EXCEPT !.op = "delete_file", !.at = "index_read",
                                         !.id = file_id, !.path = db_path,
                                         !.remove = TRUE, !.ret = "True"]]
                /\ UNCHANGED last

\* json.loads(f['metadata']['file_index'][()]): in _update_file_index, on
\* the file that db_path names now, opened once more; in delete_file, on
\* the handle it holds
TIndexRead(t) ==
    /\ pc[t].at = "index_read"
    /\ UNCHANGED <<db_path, minted, faults, legacy_data, origin, ops>>
    /\ LET p == IF pc[t].nested THEN db_path ELSE pc[t].path
           opens == ~pc[t].nested \/ CanOpenForWrite(p)
           c == IF pc[t].nested /\ opens THEN OpenAppend(fs[p]) ELSE fs[p]
           call == [NoCall EXCEPT !.op = pc[t].op, !.id = pc[t].id,
                                  !.ret = Failure(pc[t].op)]
       IN  IF ~opens \/ ~IndexReadable(c, "none")
           THEN /\ fs' = [fs EXCEPT ![p] = c]
                /\ handles' = ReleaseAll(handles, t)
                /\ Returned(t, call)
           ELSE IF pc[t].remove /\ pc[t].id \notin DOMAIN c.index
           THEN /\ pc' = [pc EXCEPT ![t].at = "return"]
                /\ UNCHANGED <<fs, handles, last>>
           ELSE /\ pc' = [pc EXCEPT ![t].at = "index_write",
                                    ![t].ipath = p,
                                    ![t].snapshot =
                                        IF pc[t].remove THEN Del(c.index, pc[t].id)
                                        ELSE IF pc[t].id \in DOMAIN c.index
                                        THEN Put(c.index, pc[t].id,
                                                 Update(c.index[pc[t].id], pc[t].info))
                                        ELSE Put(c.index, pc[t].id, pc[t].info)]
                /\ handles' = IF pc[t].nested THEN OpenHandle(handles, t, p, "rw")
                              ELSE handles
                /\ UNCHANGED <<fs, last>>

\* del f['metadata']['file_index'] and create_dataset with the index read
\* before
TIndexWrite(t) ==
    /\ pc[t].at = "index_write"
    /\ UNCHANGED <<db_path, minted, faults, legacy_data, origin, ops, last>>
    /\ fs' = [fs EXCEPT ![pc[t].ipath] = ReplaceIndex(@, pc[t].snapshot, "none").c]
    /\ handles' = IF pc[t].nested THEN CloseHandles(handles, t, pc[t].ipath, 1)
                  ELSE handles
    /\ pc' = [pc EXCEPT ![t].at = "return"]

\* the with statement of the call is left and the call returns
TReturn(t) ==
    /\ pc[t].at = "return"
    /\ UNCHANGED <<fs, db_path, minted, faults, legacy_data, ops>>
    /\ handles' = CloseHandles(handles, t, pc[t].path, 1)
    /\ origin' = IF pc[t].ret = "id" THEN Put(origin, pc[t].id, "flr") ELSE origin
    /\ Returned(t, [NoCall EXCEPT !.op = pc[t].op, !.id = pc[t].id, !.ret = pc[t].ret,
                                  !.newId = IF pc[t].ret = "id" THEN pc[t].id ELSE 0])

\* list_files up to the read of the index
TListBegin(t) ==
    /\ pc[t] = Idle
    /\ ops' = ops + 1
    /\ UNCHANGED <<fs, db_path, minted, faults, legacy_data, origin>>
    /\ IF db_path = NoPath \/ ~fs[db_path].exists
       THEN /\ Returned(t, [NoCall EXCEPT !.op = "list_files"])
            /\ UNCHANGED handles
       ELSE /\ handles' = OpenHandle(handles, t, db_path, "r")
            /\ pc' = [pc EXCEPT ![t] = [Idle EXCEPT !.op = "list_files", !.at = "listing",
                                                    !.path = db_path]]
            /\ UNCHANGED last

\* list_files from the read of the index to its return
TListEnd(t) ==
    /\ pc[t].at = "listing"
    /\ UNCHANGED <<db_path, minted, faults, legacy_data, origin, ops>>
    /\ fs' = [fs EXCEPT ![pc[t].path] =
                ListFilesWhile(@, handles[pc[t].path].mode = "r").c]
    /\ handles' = CloseHandles(handles, t, pc[t].path, 1)
    /\ Returned(t, [NoCall EXCEPT !.op = "list_files"])

\* open_database up to the open of the file
TOpenBegin(t, p) ==
    /\ pc[t] = Idle
    /\ ops' = ops + 1
    /\ UNCHANGED <<fs, minted, faults, legacy_data, origin>>
    /\ IF ~fs[p].exists
       THEN /\ Returned(t, [NoCall EXCEPT !.op = "open_database", !.other = p,
                                         !.ret = "False"])
            /\ UNCHANGED <<db_path, handles>>
       ELSE /\ db_path' = p
            /\ handles' = OpenHandle(handles, t, p, "r")
            /\ pc' = [pc EXCEPT ![t] = [Idle EXCEPT !.op = "open_database",
                                                    !.at = "opened", !.path = p]]
            /\ UNCHANGED last

\* open_database from the check of the two groups to its return
TOpenEnd(t) ==
    /\ pc[t].at = "opened"
    /\ UNCHANGED <<fs, db_path, minted, faults, legacy_data, origin, ops>>
    /\ handles' = CloseHandles(handles, t, pc[t].path, 1)
    /\ Returned(t, [NoCall EXCEPT !.op = "open_database", !.other = pc[t].path,
                                  !.ret = IF OpenSucceeds(fs[pc[t].path])
                                          THEN "True" ELSE "False"])

NextThreads ==
    \/ \E path \in FlrInputs : ops < MaxCalls /\ TAddFlrBegin("ui", path)
    \/ ops < MaxCalls /\ TListBegin("ui")
    \/ \E p \in DbPaths : ops < MaxCalls /\ TOpenBegin("ui", p)
    \/ \E t \in Workers, id \in KnownIds, results \in Results :
            ops < MaxCalls /\ TUpdateBegin(t, id, results)
    \/ \E t \in Workers, id \in KnownIds : ops < MaxCalls /\ TDeleteBegin(t, id)
    \/ \E t \in Threads : TIndexRead(t)
    \/ \E t \in Threads : TIndexWrite(t)
    \/ \E t \in Threads : TReturn(t)
    \/ TListEnd("ui")
    \/ TOpenEnd("ui")

SpecThreads == Init /\ [][NextThreads]_vars

\* _attempt_metadata_repair called on its own, no handle on the file held
AttemptRepair ==
    LET r == AttemptMetadataRepair(Cur, FALSE)
    IN  /\ Step
        /\ Commit([NoCall EXCEPT !.op = "attempt_metadata_repair"],
                  Res(r.c, IF r.ret THEN "True" ELSE "False", 0, 0))
        /\ UNCHANGED <<faults, origin>>

\* the archives offered to add_flz_file where repair is looked at
RepairInputs == {FlzBare, FlrUnknown}

\* ingest of files named Unknown, and the two repair passes
NextRepair ==
    \/ \E p \in DbPaths : ops < MaxOps /\ OpenDatabase(p)
    \/ \E path \in RepairInputs : ops < MaxOps /\ AddFlz(path, "none")
    \/ \E path \in FlrInputs : ops < MaxOps /\ AddFlr(path, "none")
    \/ \E id \in KnownIds : ops < MaxOps /\ Delete(id, "none")
    \/ ops < MaxOps /\ List
    \/ ops < MaxOps /\ AttemptRepair
    \/ \E p \in DbPaths : ops < MaxOps /\ RepairUtility(p)

SpecRepair == Init /\ [][NextRepair]_vars

\* delete_file of an entry, an I/O error striking at the read of the index
\* (line 762) after the group was deleted (line 759)
DeleteInterrupted(id) ==
    /\ Step
    /\ db_path # NoPath
    /\ Cur.valid /\ id \in DOMAIN Cur.files
    /\ Commit([NoCall EXCEPT !.op = "delete_file", !.id = id],
              DeleteFile(Cur, id, "index_read"))
    /\ UNCHANGED <<faults, origin>>

\* a delete_file that fails between its two steps, among calls of which
\* some meet an I/O failure of their own
NextOrphan ==
    \/ \E path \in {FlzFull}, fault \in Faults : ops < MaxOps /\ AddFlz(path, fault)
    \/ \E id \in KnownIds : ops < MaxOps /\ DeleteInterrupted(id)
    \/ \E id \in KnownIds : ops < MaxOps /\ Delete(id, "none")
    \/ \E id \in KnownIds : ops < MaxOps /\ Duplicate(id, "none")
    \/ \E id \in KnownIds, new_name \in NewNames :
            ops < MaxOps /\ Rename(id, new_name, "none")
    \/ \E id \in KnownIds, results \in Results :
            ops < MaxOps /\ UpdateAnalysis(id, results, "none")
    \/ \E other \in DbPaths : ops < MaxOps /\ Merge(other, 0, "none")
    \/ ops < MaxOps /\ List
    \/ \E p \in DbPaths : ops < MaxOps /\ RepairUtility(p)

SpecOrphan == Init /\ [][NextOrphan]_vars

(***************************************************************************)
(* Properties.  A call is seen in a step by what last' records of it; Cur  *)
(* is the current container before the call and Cur' after it.            *)
(***************************************************************************)

\* C1: when no call met an I/O failure, in every container the EntryIDs of
\* the FileIndex are exactly the EntryIDs of the Entry subtrees under files/.
C1_IndexMatchesEntries ==
    \A p \in DbPaths :
        fs[p].valid => fs[p].hasIndex /\ DOMAIN fs[p].index = DOMAIN fs[p].files

C1_Witness ==
    /\ last.op = "merge_databases" /\ last.ret = "True"
    /\ Cardinality(DOMAIN Cur.index) >= 2

\* merge_databases returned True in this step
MergeReturnedTrue == last'.op = "merge_databases" /\ last'.ret = "True"

\* C2: after merge_databases(A) into the current container B returns True, B
\* holds the entries it held before and as many more as A holds, so every
\* copied entry got an id that B did not hold and that no other copy got.
C2_MergeAddsFreshEntries ==
    [][MergeReturnedTrue =>
        /\ Cardinality(DOMAIN Cur'.files) =
              Cardinality(DOMAIN Cur.files) + Cardinality(DOMAIN fs[last'.other].files)
        /\ DOMAIN Cur.files \subseteq DOMAIN Cur'.files]_vars

C2_Witness ==
    /\ last.op = "merge_databases" /\ last.ret = "True"
    /\ DOMAIN fs[last.other].files # {}
    /\ Cardinality(DOMAIN Cur.files) > Cardinality(DOMAIN fs[last.other].files)

\* the ids the call of this step added to the current container
NewIds == DOMAIN Cur'.files \ DOMAIN Cur.files

\* the record merge_databases is to write for the record info of container A
Stamped(info, A) == Update(info, [merged_from |-> PathText(A), merged_at |-> Now])

\* C3 as amended: after merge_databases(A) returns True, for every Entry
\* subtree of A the destination holds a deep copy under a new id; when A's
\* FileIndex has a record for the subtree, the destination's FileIndex holds
\* under the new id that record stamped with merged_from and merged_at, and
\* when A's FileIndex has none, the copy has no record either.
C3_MergeCopiesEntriesAndTheirRecords ==
    [][MergeReturnedTrue =>
        LET A == fs[last'.other]
        IN  \A id \in DOMAIN A.files :
              \E new \in NewIds :
                /\ Cur'.files[new] = A.files[id]
                /\ IF id \in DOMAIN A.index
                   THEN /\ new \in DOMAIN Cur'.index
                        /\ Cur'.index[new] = Stamped(A.index[id], last'.other)
                   ELSE new \notin DOMAIN Cur'.index]_vars

C3_Witness ==
    /\ last.op = "merge_databases" /\ last.ret = "True"
    /\ \E id \in DOMAIN fs[last.other].index, new \in DOMAIN Cur.index :
          Cur.index[new] = Stamped(fs[last.other].index[id], last.other)

\* C3 as stated: after merge_databases(A) returns True, for every Entry
\* subtree of A the destination holds under a new id a deep copy and a
\* FileIndex record stamped with merged_from and merged_at.
C3_MergeRecordsEveryEntry ==
    [][MergeReturnedTrue =>
        LET A == fs[last'.other]
        IN  \A id \in DOMAIN A.files :
              \E new \in NewIds :
                /\ Cur'.files[new] = A.files[id]
                /\ new \in DOMAIN Cur'.index
                /\ {"merged_from", "merged_at"} \subseteq DOMAIN Cur'.index[new]]_vars

\* C4: when merge_databases into a structurally valid destination fails
\* after it copied some item, it returns False and the destination still has
\* both sections and a readable FileIndex, every id of the FileIndex has an
\* Entry subtree, and every entry the destination held is unchanged.
C4_FailedMergeLeavesValidDestination ==
    [][(/\ last'.op = "merge_databases"
        /\ Cur.valid /\ Cur.hasIndex
        /\ last'.ret # "True"
        /\ NewIds # {}) =>
        /\ last'.ret = "False"
        /\ Cur'.valid /\ Cur'.hasIndex
        /\ DOMAIN Cur'.index \subseteq DOMAIN Cur'.files
        /\ \A id \in DOMAIN Cur.files : Cur'.files[id] = Cur.files[id]
        /\ \A id \in DOMAIN Cur.index :
              id \in DOMAIN Cur'.index /\ Cur'.index[id] = Cur.index[id]]_vars

\* duplicate_file returned an id in this step
DuplicateReturnedId == last'.op = "duplicate_file" /\ last'.ret = "id"

\* the name duplicate_file starts from: file_name, or original_path when the
\* record has no file_name
OriginalName(info) == Get(info, "file_name", Get(info, "original_path", <<>>))

\* stem + "_copy" + extension of the last component of a name
StemCopyExt(name) ==
    LET base == Basename(name)
    IN  SplitExt(base)[1] \o <<"_copy">> \o SplitExt(base)[2]

\* C5 as amended: the id duplicate_file(id) returns differs from id and from
\* every id in the container; when id has a FileRecord whose file_name (or,
\* without one, original_path) is not empty, the new FileRecord's file_name
\* is that name's stem + "_copy" + its extension; when the record has no
\* such name the new record has the file_name of the old one, if any; when
\* id has no FileRecord the copy has none.
C5_DuplicateNamesTheCopy ==
    [][DuplicateReturnedId =>
        LET id == last'.id
            new == last'.newId
        IN  /\ new # id
            /\ new \notin DOMAIN Cur.files \cup DOMAIN Cur.index
            /\ IF id \notin DOMAIN Cur.index THEN new \notin DOMAIN Cur'.index
               ELSE /\ new \in DOMAIN Cur'.index
                    /\ IF OriginalName(Cur.index[id]) # <<>>
                       THEN Cur'.index[new].file_name =
                                StemCopyExt(OriginalName(Cur.index[id]))
                       ELSE /\ ("file_name" \in DOMAIN Cur'.index[new])
                                 = ("file_name" \in DOMAIN Cur.index[id])
                            /\ Get(Cur'.index[new], "file_name", <<>>) = <<>>]_vars

C5_Witness ==
    /\ last.op = "duplicate_file" /\ last.ret = "id"
    /\ last.newId \in DOMAIN Cur.index
    /\ Cur.index[last.newId].file_name = <<"a", "_copy", ".", "flz">>

\* C5 as stated: the id duplicate_file(id) returns differs from id and from
\* every id in the container, and the new FileRecord's file_name is the
\* original name's stem + "_copy" + its extension.
C5_DuplicateAlwaysNamesTheCopy ==
    [][DuplicateReturnedId =>
        LET id == last'.id
            new == last'.newId
        IN  /\ new # id
            /\ new \notin DOMAIN Cur.files \cup DOMAIN Cur.index
            /\ id \in DOMAIN Cur.index
            /\ new \in DOMAIN Cur'.index
            /\ "file_name" \in DOMAIN Cur'.index[new]
            /\ Cur'.index[new].file_name = StemCopyExt(OriginalName(Cur.index[id]))]_vars

\* duplicate_file(id) for an id with no Entry subtree returns None and
\* changes neither the FileIndex nor the Entries
DuplicateOfAbsentId ==
    (last'.op = "duplicate_file" /\ last'.id \notin DOMAIN Cur.files) =>
        /\ last'.ret = "None"
        /\ Cur'.index = Cur.index
        /\ Cur'.files = Cur.files
        /\ Cur'.hasIndex = Cur.hasIndex

\* C6 as amended: when duplicate_file(id) returns a new id the container
\* holds under it a deep copy of id's Entry subtree and, if id has a
\* FileRecord, a record stamped duplicated_from = id and duplicated_at; if id
\* has no FileRecord the copy has none.  When id is absent it returns None
\* and neither the FileIndex nor the Entries change.
C6_DuplicateCopiesEntryAndItsRecord ==
    [][/\ DuplicateReturnedId =>
            LET id == last'.id
                new == last'.newId
            IN  /\ new \in DOMAIN Cur'.files
                /\ Cur'.files[new] = Cur.files[id]
                /\ IF id \in DOMAIN Cur.index
                   THEN /\ new \in DOMAIN Cur'.index
                        /\ "duplicated_at" \in DOMAIN Cur'.index[new]
                        /\ Get(Cur'.index[new], "duplicated_from", 0) = id
                   ELSE new \notin DOMAIN Cur'.index
       /\ DuplicateOfAbsentId]_vars

C6_Witness ==
    /\ last.op = "duplicate_file" /\ last.ret = "id"
    /\ last.newId \in DOMAIN Cur.index
    /\ Cur.index[last.newId].duplicated_from = last.id
    /\ Cur.files[last.newId] = Cur.files[last.id]

\* C6 as stated: when duplicate_file(id) returns a new id the container holds
\* under it a deep copy of id's Entry subtree and a FileIndex record stamped
\* duplicated_from = id and duplicated_at; when id is absent it returns None
\* and neither the FileIndex nor the Entries change.
C6_DuplicateAlwaysWritesRecord ==
    [][/\ DuplicateReturnedId =>
            LET id == last'.id
                new == last'.newId
            IN  /\ new \in DOMAIN Cur'.files
                /\ Cur'.files[new] = Cur.files[id]
                /\ new \in DOMAIN Cur'.index
                /\ "duplicated_at" \in DOMAIN Cur'.index[new]
                /\ Get(Cur'.index[new], "duplicated_from", 0) = id
       /\ DuplicateOfAbsentId]_vars

\* C7: delete_file(id) for an id with no Entry subtree returns False and
\* changes neither the FileIndex nor the Entries; when it returns True, id is
\* in neither, and the record and the subtree of every other id are as they
\* were.
C7_DeleteFrame ==
    [][last'.op = "delete_file" =>
        LET id == last'.id
        IN  /\ id \notin DOMAIN Cur.files =>
                /\ last'.ret = "False"
                /\ Cur'.index = Cur.index
                /\ Cur'.files = Cur.files
                /\ Cur'.hasIndex = Cur.hasIndex
            /\ last'.ret = "True" =>
                /\ DOMAIN Cur'.files = DOMAIN Cur.files \ {id}
                /\ DOMAIN Cur'.index = DOMAIN Cur.index \ {id}
                /\ \A x \in DOMAIN Cur'.files : Cur'.files[x] = Cur.files[x]
                /\ \A x \in DOMAIN Cur'.index : Cur'.index[x] = Cur.index[x]]_vars

C7_Witness ==
    /\ last.op = "delete_file" /\ last.ret = "True"
    /\ DOMAIN Cur.files # {}
    /\ DOMAIN Cur.index = DOMAIN Cur.files

\* add_flz_file was called in this step, on a container with both sections
\* and a FileIndex, with an archive that has no photon_data.flr member
AddedArchiveWithoutPhotonData ==
    /\ last'.op = "add_flz_file"
    /\ Cur.valid /\ Cur.hasIndex
    /\ SrcIsZip(last'.path)
    /\ ~ZipMembers(last'.path).photon

FailedIngest ==
    /\ last'.op \in {"add_flz_file", "add_flr_file", "add_flb_file"}
    /\ \/ last'.path = FlrMissing
       \/ last'.op = "add_flz_file" /\ last'.path = FlrRaw
       \/ db_path = NoPath

\* C9: an ingest call that fails because the source file is missing, the
\* archive is corrupt or no container is open returns None, and the
\* FileIndex and the Entries of every container are as they were.
C9_FailedIngestChangesNothing ==
    [][FailedIngest => last'.ret = "None" /\ fs' = fs /\ db_path' = db_path]_vars

C9_Witness ==
    /\ last.op \in {"add_flr_file", "add_flb_file"}
    /\ last.path = FlrMissing
    /\ last.ret = "None"
    /\ db_path # NoPath
    /\ DOMAIN Cur.files # {}

\* C10: the FileRecord of every EntryID an importer returned has, as long as
\* the id is in a FileIndex, the file_type of that importer, and the row
\* list_files builds for it has the same type.
C10_FileTypeIsTheImportersType ==
    \A p \in DbPaths :
        \A id \in DOMAIN origin \cap DOMAIN fs[p].index :
            /\ Get(fs[p].index[id], "file_type", <<>>) = <<origin[id]>>
            /\ ListRow(fs[p], id).file_type = <<origin[id]>>

\* the flag of a FileRecord that tells of each slot of raw_data
SlotFlags ==
    [alignment_image |-> "has_alignment_image",
     laser_on_image |-> "has_laser_on_image",
     photon_data |-> "has_photon_data"]

ListedReadableContainer ==
    /\ last'.op = "list_files"
    /\ db_path # NoPath
    /\ Cur.valid /\ Cur.hasIndex

\* C13: a list_files call does not recurse without end, and it returns a row
\* for every record of the FileIndex, a record whose name the one repair
\* pass did not resolve being listed as 'Unknown'.
C13_ListFilesEndsWithEveryRow ==
    [][ListedReadableContainer =>
        /\ ~ListFiles(Cur).recursion_error
        /\ DOMAIN ListFiles(Cur).rows = DOMAIN Cur.index]_vars

\* the display name the repair pass is to give the entry e with EntryID id:
\* the basename of a path-like attribute of its group, else recovered_file_{id}
RepairedName(e, id) ==
    IF PathAttrs(e) # {}
    THEN Basename(e.attrs[CHOOSE a \in PathAttrs(e) : TRUE])
    ELSE <<"recovered_file_", IdTok(id)>>

\* C14: when list_files is called and the original_path of a FileRecord is
\* the 'Unknown' sentinel, the repair pass runs in that call, the record is
\* no longer suspect after it, and the row of the record shows the basename
\* of a path-like attribute of the Entry if there is one, else
\* recovered_file_{id}.
C14_ListFilesRepairsUnknownPath ==
    [][ListedReadableContainer =>
        \A id \in DOMAIN Cur.index \cap DOMAIN Cur.files :
            Get(Cur.index[id], "original_path", <<>>) = Unknown =>
                /\ ~IsSuspect(Cur'.index[id])
                /\ id \in DOMAIN ListFiles(Cur).rows
                /\ ListFiles(Cur).rows[id].file_name = RepairedName(Cur.files[id], id)]_vars

\* the field of the analysis results that each analysis column shows
ColumnField ==
    [peak_count |-> "total_peak_count", signal_cv |-> "signal_cv",
     avg_background |-> "avg_background", avg_fluorescence |-> "avg_fl_signal",
     transit_time |-> "avg_particle_transit_time",
     eff_rec_time |-> "effective_recording_time"]

\* the entry of id in c has a current analysis
Analyzed(c, id) == id \in DOMAIN c.files /\ c.files[id].hasPA

\* C15 as amended: in every row list_files returns, the six analysis columns
\* are all "N/A" exactly when the entry has no current analysis; when it has
\* one, every column shows the value of its field, and 0 when the results
\* lack the field.
C15_ColumnsAreNAOnlyWithoutAnalysis ==
    [][ListedReadableContainer =>
        \A id \in DOMAIN ListFiles(Cur).rows :
            \A col \in DOMAIN ColumnField :
                LET cell == ListFiles(Cur).rows[id].cells[col]
                IN  IF Analyzed(Cur, id)
                    THEN /\ cell # NA
                         /\ cell[2] = Get(Cur.files[id].pa.results, ColumnField[col], 0)
                    ELSE cell = NA]_vars

C15_Witness ==
    /\ last.op = "list_files"
    /\ \E id \in DOMAIN ListFiles(Cur).rows :
          /\ Analyzed(Cur, id)
          /\ "signal_cv" \notin DOMAIN Cur.files[id].pa.results
          /\ ListFiles(Cur).rows[id].cells.signal_cv = <<".2f", 0>>
          /\ "total_peak_count" \in DOMAIN Cur.files[id].pa.results

\* C15 as stated: in every row list_files returns, each analysis column is
\* "N/A" exactly when its field is absent from the entry's current analysis.
C15_ColumnIsNAExactlyWhenFieldAbsent ==
    [][ListedReadableContainer =>
        \A id \in DOMAIN ListFiles(Cur).rows :
            \A col \in DOMAIN ColumnField :
                (ListFiles(Cur).rows[id].cells[col] = NA)
                    = ~(/\ Analyzed(Cur, id)
                        /\ ColumnField[col] \in DOMAIN Cur.files[id].pa.results)]_vars

UpdateReturnedTrue == last'.op = "update_file_analysis" /\ last'.ret = "True"

\* what get_file_data(id) returns after the step
ReadBack(id) == GetFileData(Cur', db_path', id)

\* the step leaves the analysis of id to be read as it was
AnalysisKept(id) ==
    (/\ db_path' = db_path
     /\ ~(last'.op = "update_file_analysis" /\ last'.id = id)
     /\ id \in DOMAIN Cur'.files
     /\ Cur'.files[id] # Cur.files[id]
     /\ GetFileData(Cur, db_path, id).ret = "dict"
     /\ ReadBack(id).ret = "dict")
        => ReadBack(id).photon_analysis = GetFileData(Cur, db_path, id).photon_analysis

Blank(new_name) == Strip(new_name) = <<>>

\* C20: rename_file(id, newName) with an empty or whitespace-only newName
\* returns False and changes nothing in the container; with any other
\* newName and an existing id it returns True, the record of id then has
\* file_name equal to the stripped newName and a renamed_at stamp, and all
\* other records are unchanged.
C20_RenameRejectsBlankAndRenamesExisting ==
    [][last'.op = "rename_file" =>
        \A new_name \in NewNames :
            Rename(last'.id, new_name, "none") =>
                IF Blank(new_name)
                THEN last'.ret = "False" /\ fs' = fs
                ELSE (db_path # NoPath /\ last'.id \in DOMAIN Cur.files) =>
                        /\ last'.ret = "True"
                        /\ last'.id \in DOMAIN Cur'.index
                        /\ Get(Cur'.index[last'.id], "file_name", <<>>) = Strip(new_name)
                        /\ "renamed_at" \in DOMAIN Cur'.index[last'.id]
                        /\ \A id \in DOMAIN Cur.index \ {last'.id} :
                              id \in DOMAIN Cur'.index /\ Cur'.index[id] = Cur.index[id]]_vars

\* thread t is inside a call that writes the container
Mutating(t) == pc[t].op \in {"add_flr_file", "update_file_analysis", "delete_file"}

\* C17: mutations of one container are mutually exclusive: in no reachable
\* state are two mutating operations in flight at the same time.
C17_MutationsAreMutuallyExclusive ==
    \A t, u \in Threads :
        (t # u /\ Mutating(t) /\ Mutating(u)) => pc[t].path # pc[u].path

\* C18: in every state where a thread executes no operation, after any
\* operation has returned with success or failure, the thread holds no handle
\* on a container; when no thread executes one, no file is open.
C18_NoHandleAcrossCalls ==
    /\ \A t \in Threads : pc[t] = Idle => \A p \in DbPaths : handles[p].open[t] = 0
    /\ (\A t \in Threads : pc[t] = Idle) => handles = NoHandles

C18_Witness ==
    /\ \A t \in Threads : pc[t] = Idle
    /\ last.op = "update_file_analysis"
    /\ last.ret = "False"
    /\ \E p \in DbPaths : last.id \in DOMAIN fs[p].files /\ fs[p].files[last.id].hasPA
    /\ handles = NoHandles

\* C21: a failure while rename_file mirrors the new name into the metadata of
\* the Entry subtree is never fatal: whenever rename_file returns False the
\* FileIndex is as it was before the call.
C21_FailedRenameLeavesIndex ==
    [][(last'.op = "rename_file" /\ last'.ret = "False" /\ db_path # NoPath) =>
        /\ Cur'.hasIndex = Cur.hasIndex
        /\ Cur'.index = Cur.index]_vars

\* C22: after create_database(p) succeeded, the container created opens, its
\* FileIndex is empty and list_files on it returns zero rows, whatever the
\* path held before the call.
C22_CreatedContainerIsEmpty ==
    [][(last'.op = "create_database" /\ last'.ret = "True") =>
        LET created == fs'[Normalize(last'.other)]
        IN  /\ OpenSucceeds(created)
            /\ created.hasIndex
            /\ DOMAIN created.index = {}
            /\ DOMAIN created.files = {}
            /\ DOMAIN ListFiles(created).rows = {}
            /\ ~ListFiles(created).recursion_error]_vars

\* create_database has just replaced the container of an earlier run,
\* which held an entry
C22_Witness ==
    /\ last.op = "create_database"
    /\ last.other = OtherDb
    /\ DOMAIN fs[OtherDb].index = {}
    /\ fs[OtherDb].valid
    /\ minted = LegacyId
    /\ origin = EmptyDict
    /\ DOMAIN fs[DefaultDb].files = {}
    /\ ops = 1

\* C26: after create_database(p) returned True, for p written with or without
\* the extension, the manager's current path is the normalized path of the
\* file that was created, and open_database on the recorded path succeeds.
C26_CreateRecordsTheCreatedPath ==
    [][(last'.op = "create_database" /\ last'.ret = "True") =>
        /\ db_path' = Normalize(last'.other)
        /\ OpenSucceeds(fs'[db_path'])
        /\ Cur' = NewContainer]_vars

\* C27: an open_database call that returns False never changes the manager's
\* current container.
C27_FailedOpenKeepsTheContainer ==
    [][(last'.op = "open_database" /\ last'.ret = "False") => db_path' = db_path]_vars

\* C23: load_csv(path) on a readable CSV file returns the loaded table: the
\* return value is not None and has as many rows and columns as the file.
C23_LoadCsvReturnsTheTable ==
    [][last'.op = "load_csv" =>
        \A file \in CsvFiles :
            (LoadCsv(file) /\ file.readable) =>
                /\ last'.ret # "None"
                /\ Shape(legacy_data') = <<Len(file.lines), Len(file.header)>>]_vars

\* C24: every change of the FileIndex replaces the dataset as one unit: in
\* every state a call leaves, a failed call included, a container that had
\* /metadata/file_index still has it, and it decodes to a record for every
\* id it held before or for every id of the Entry subtrees it has now.
C24_IndexIsReplacedAsOneUnit ==
    [][\A p \in DbPaths :
        (fs[p].valid /\ fs[p].hasIndex /\ fs'[p].valid) =>
            /\ fs'[p].hasIndex
            /\ \/ DOMAIN fs'[p].index = DOMAIN fs[p].index
               \/ DOMAIN fs'[p].index = DOMAIN fs'[p].files]_vars

\* a record of c that repair takes for one with lost metadata, of an entry
\* no attribute of which looks like a path
Unrecoverable(c, id) ==
    /\ c.valid /\ c.hasIndex
    /\ id \in DOMAIN c.index \cap DOMAIN c.files
    /\ IsSuspect(c.index[id])
    /\ PathAttrs(c.files[id]) = {}

\* what repair is to write for such a record: the name, the type by what
\* the photon slot holds, the stamp
Recovered(c, id, rec) ==
    /\ Get(rec, "original_path", <<>>) = <<"recovered_file_", IdTok(id)>>
    /\ Get(rec, "file_name", <<>>) = <<"recovered_file_", IdTok(id)>>
    /\ Get(rec, "status", <<>>) = <<"recovered">>
    /\ Get(rec, "file_type", <<>>) =
            IF c.files[id].raw.photon_data = DataSlot THEN <<"flz">> ELSE <<"unknown">>

\* C25: when a repair pass meets a suspect record whose entry has no
\* path-like attribute, it names the record recovered_file_{id}, stamps
\* status recovered, and sets file_type to flz exactly when the photon slot
\* of the entry holds data, to unknown when it holds the null marker.
C25_RepairFallbackGoesByThePhotonSlot ==
    [][/\ (last'.op = "repair_utility" =>
            \A id \in DOMAIN fs[last'.other].index :
                Unrecoverable(fs[last'.other], id) =>
                    Recovered(fs[last'.other], id, fs'[last'.other].index[id]))
       /\ ((last'.op = "attempt_metadata_repair" /\ db_path # NoPath) =>
            \A id \in DOMAIN Cur.index :
                Unrecoverable(Cur, id) => Recovered(Cur, id, Cur'.index[id]))]_vars

\* thread t returns True from update_file_analysis in this step, and no
\* call is under way after it
UpdateReturnsLast(t) ==
    /\ pc[t].op = "update_file_analysis"
    /\ pc[t].at = "return"
    /\ pc[t].ret = "True"
    /\ \A u \in Threads : pc'[u] = Idle

\* C28: no update of the FileIndex is lost when calls overlap: when an
\* update_file_analysis returns True and no call is under way, every entry
\* whose id an ingest has returned has its record in the FileIndex with the
\* fields the ingest wrote, and the record of the entry just analysed has
\* the flag has_analysis.
C28_NoIndexUpdateIsLost ==
    [][\A t \in Workers :
        UpdateReturnsLast(t) =>
            LET c == fs'[pc[t].path]
            IN  \A id \in DOMAIN origin' \cap DOMAIN c.files :
                    /\ c.hasIndex
                    /\ id \in DOMAIN c.index
                    /\ Get(c.index[id], "original_path", <<>>) # <<>>
                    /\ id = pc[t].id =>
                            Get(c.index[id], "has_analysis", FALSE) = TRUE]_vars

\* the ids that have a record in the FileIndex of c and no Entry subtree
Orphans(c) == IF c.valid /\ c.hasIndex THEN DOMAIN c.index \ DOMAIN c.files ELSE {}

\* the calls that act on the current container without replacing it
ContainerCalls ==
    {"add_flz_file", "add_flr_file", "add_flb_file", "update_file_analysis",
     "delete_file", "duplicate_file", "rename_file", "merge_databases",
     "list_files", "attempt_metadata_repair"}

\* the record of id is in c2 as it is in c
RecordKept(c, c2, id) ==
    /\ c2.hasIndex
    /\ id \in DOMAIN c2.index
    /\ c2.index[id] = c.index[id]

\* C29: a record of the FileIndex whose id has no Entry subtree stays as it
\* is through every delete_file, duplicate_file, rename_file,
\* update_file_analysis, ingest, merge_databases, list_files and repair call
\* on its container; the calls that name its id return failure.
C29_OrphanRecordIsNeverChanged ==
    [][/\ (last'.op \in ContainerCalls /\ db_path # NoPath) =>
            \A id \in Orphans(Cur) :
                /\ RecordKept(Cur, Cur', id)
                /\ (last'.id = id /\ last'.op \in {"update_file_analysis", "delete_file",
                                                   "duplicate_file", "rename_file"})
                        => last'.ret \in {"False", "None"}
       /\ last'.op = "repair_utility" =>
            \A id \in Orphans(fs[last'.other]) :
                RecordKept(fs[last'.other], fs'[last'.other], id)]_vars

\* C30: after rename_file(id, new_name) returned True, the row of id that
\* list_files returns has the stripped new name as its File Name, also for
\* an entry whose record has an original_path that resolves.
C30_RenamedRowShowsTheNewName ==
    [][(last'.op = "rename_file" /\ last'.ret = "True") =>
        \A new_name \in NewNames :
            Rename(last'.id, new_name, "none") =>
                /\ last'.id \in DOMAIN ListFiles(Cur').rows
                /\ ListFiles(Cur').rows[last'.id].file_name = Strip(new_name)]_vars

=============================================================================
